---------------------------- MODULE Spec2Model ----------------------------
(***************************************************************************)
(* TrackerExtractInfo (src/libtracker-extract/tracker-extract-info.c):     *)
(* the reference-counted object handed from the dispatcher to an extract   *)
(* module.  The model holds one TrackerExtractInfo, the GObject reference  *)
(* counts of the GFile and of the TrackerResources it points to, and the   *)
(* holders that call its functions concurrently.  Every function of the    *)
(* file is one action; g_atomic_int_inc and g_atomic_int_dec_and_test are  *)
(* atomic, so ref and unref are single steps.                              *)
(***************************************************************************)
EXTENDS Integers, Sequences, FiniteSets, TLC

(***************************************************************************)
(* Bounds of the model.                                                    *)
(***************************************************************************)
\* longest suffix string the callers pass
MaxLen == 1
\* most tracker_extract_info_ref calls in one behaviour
MaxAcquires == 2
\* most tracker_extract_info_set_resource calls in one behaviour
MaxSets == 2

(***************************************************************************)
(* Values.  A C pointer is NULL or names an object; a gchar* is NULL or a  *)
(* string.  NULL is a string that is no string the callers pass and no     *)
(* object name.                                                            *)
(***************************************************************************)
NULL == "NULL"

Chars == {"3", "/"}

RECURSIVE Strs(_)
Strs(n) == IF n = 0 THEN {""}
           ELSE Strs(n - 1) \cup {s \o c : s \in Strs(n - 1), c \in Chars}

\* the holders: the dispatcher creates the info, the others receive it
Workers == {"dispatcher", "extractor", "consumer"}

\* the GFile objects, and what a caller may pass as `file`
GFiles == {"song.mp3"}
FileArgs == GFiles \cup {NULL, "not-a-GFile"}

\* what a caller may pass as `content_id` and as `suffix`
ContentIdArgs == {NULL, "", "abc123", "h:feedface"}
SuffixArgs == {NULL} \cup Strs(MaxLen)

\* what a caller may pass as <<mimetype, graph, max_text>>
Profiles == {<<"audio/mpeg", "", 0>>, <<NULL, "g", -1>>}

\* the TrackerResource objects, and what a caller may pass as `resource`
Resources == {"R1", "R2"}
ResourceArgs == Resources \cup {NULL}

VARIABLES
    info,         \* the TrackerExtractInfo pointer: NULL, "live" or "freed"
    resource,     \* info->resource
    file,         \* info->file
    content_id,   \* info->content_id
    mimetype,     \* info->mimetype
    graph,        \* info->graph
    max_text,     \* info->max_text
    ref_count,    \* info->ref_count
    file_refs,    \* GObject reference count of each GFile
    res_refs,     \* GObject reference count of each TrackerResource
    owner_refs,   \* the reference the code that built a resource holds on it
    held,         \* references on info each holder owns
    op,           \* the function called last
    arg,          \* its argument (new: the inputs, get_content_id: suffix,
                  \* set_resource: resource)
    ret,          \* its return value
    acquires,     \* completed tracker_extract_info_ref calls
    releases,     \* completed tracker_extract_info_unref calls
    destroys,     \* times the body of unref's if ran
    sets,         \* completed tracker_extract_info_set_resource calls
    ctx_file_refs,\* references info holds on each GFile (taken - given back)
    ctx_res_refs  \* references info holds on each resource (taken - given back)

fields == <<info, resource, file, content_id, mimetype, graph, max_text>>
gobjects == <<file_refs, res_refs, owner_refs>>
counters == <<acquires, releases, destroys, sets>>
ghosts == <<ctx_file_refs, ctx_res_refs>>
vars == <<fields, ref_count, gobjects, held, op, arg, ret, counters, ghosts>>

(***************************************************************************)
(* GLib primitives the file calls.                                         *)
(***************************************************************************)
\* G_IS_FILE (file)
G_IS_FILE(f) == f \in GFiles

\* a copy that takes the empty string for an absent one
StrdupEmptyIsNull(s) == IF s = NULL \/ s = "" THEN NULL ELSE "" \o s

\* g_strdup: a copy of the string, NULL for NULL
g_strdup(s) == IF s = NULL THEN NULL ELSE "" \o s

\* a reference that is stored but not counted
RefNotTaken(refs, o) == refs

\* a reference that is never given back
UnrefForgotten(refs, o) == refs

\* g_object_ref / g_object_unref on the count table `refs`; g_object_ref of
\* a non-object fails its g_return_val_if_fail and changes nothing
g_object_ref(refs, o) ==
    IF o \in DOMAIN refs THEN [refs EXCEPT ![o] = @ + 1] ELSE refs

g_object_unref(refs, o) ==
    IF o \in DOMAIN refs THEN [refs EXCEPT ![o] = @ - 1] ELSE refs

\* a lost update of the counter: what a non-atomic increment can do
LostInc(v) == v

\* g_atomic_int_inc (&info->ref_count): the new value
g_atomic_int_inc(v) == v + 1

\* a test that never sees zero
DecAndTestNever(v) == v - 1 < 0

\* a test that fires one reference early
DecAndTestEarly(v) == v - 1 <= 1

\* g_atomic_int_dec_and_test (&info->ref_count): TRUE iff the new value is 0
g_atomic_int_dec_and_test(v) == v - 1 = 0

(***************************************************************************)
(* Init: nothing created yet; every GFile and every resource is held once  *)
(* by the code that built it.                                              *)
(***************************************************************************)
Init ==
    /\ info = NULL
    /\ resource = NULL
    /\ file = NULL
    /\ content_id = NULL
    /\ mimetype = NULL
    /\ graph = NULL
    /\ max_text = 0
    /\ ref_count = 0
    /\ file_refs = [f \in GFiles |-> 1]
    /\ res_refs = [r \in Resources |-> 1]
    /\ owner_refs = [r \in Resources |-> 1]
    /\ held = [w \in Workers |-> 0]
    /\ op = "none"
    /\ arg = NULL
    /\ ret = NULL
    /\ acquires = 0
    /\ releases = 0
    /\ destroys = 0
    /\ sets = 0
    /\ ctx_file_refs = [f \in GFiles |-> 0]
    /\ ctx_res_refs = [r \in Resources |-> 0]

(***************************************************************************)
(* tracker_extract_info_new                                                *)
(***************************************************************************)
\* a check that lets the empty string through
ValidContentIdNonNull(c) == c # NULL

\* content_id && *content_id
ValidContentId(c) == c # NULL /\ c # ""

\* info->ref_count after construction, as a function of the zeroed slice
RefCountUnset(zeroed) == zeroed

\* info->ref_count = 1
InitialRefCount(zeroed) == zeroed + 1

tracker_extract_info_new(a_file, a_content_id, a_mimetype, a_graph, a_max_text) ==
    /\ info = NULL
    /\ op' = "new"
    /\ arg' = <<a_file, a_content_id, a_mimetype, a_graph, a_max_text>>
    /\ IF G_IS_FILE(a_file) /\ ValidContentId(a_content_id)
       THEN /\ info' = "live"
            /\ file_refs' = g_object_ref(file_refs, a_file)
            /\ ctx_file_refs' = [ctx_file_refs EXCEPT ![a_file] = @ + 1]
            /\ file' = a_file
            /\ content_id' = g_strdup(a_content_id)
            /\ mimetype' = g_strdup(a_mimetype)
            /\ graph' = g_strdup(a_graph)
            /\ max_text' = a_max_text
            /\ resource' = NULL
            /\ ref_count' = InitialRefCount(0)
            /\ held' = [held EXCEPT !["dispatcher"] = @ + 1]
            /\ ret' = "live"
       ELSE /\ ret' = NULL
            /\ UNCHANGED <<fields, ref_count, file_refs, held, ctx_file_refs>>
    /\ UNCHANGED <<res_refs, owner_refs, counters, ctx_res_refs>>

(***************************************************************************)
(* tracker_extract_info_ref: the caller w owns a reference or borrows one  *)
(* from a holder that keeps it for the duration of the call.               *)
(***************************************************************************)
tracker_extract_info_ref(w) ==
    /\ info = "live"
    /\ \E l \in Workers : held[l] > 0
    /\ acquires < MaxAcquires
    /\ ref_count' = g_atomic_int_inc(ref_count)
    /\ held' = [held EXCEPT ![w] = @ + 1]
    /\ acquires' = acquires + 1
    /\ op' = "ref"
    /\ arg' = NULL
    /\ ret' = info
    /\ UNCHANGED <<fields, gobjects, releases, destroys, sets, ghosts>>

(***************************************************************************)
(* tracker_extract_info_unref: the caller w gives back a reference it owns.*)
(* g_slice_free returns the memory and leaves its bytes as they are; no    *)
(* function is called on a freed info.                                     *)
(***************************************************************************)
\* a destruction that forgets the resource
FreeResourceSkipped(refs, r) == refs

\* if (info->resource) g_object_unref (info->resource);
FreeResource(refs, r) == IF r # NULL THEN g_object_unref(refs, r) ELSE refs

tracker_extract_info_unref(w) ==
    /\ info = "live"
    /\ held[w] > 0
    /\ held' = [held EXCEPT ![w] = @ - 1]
    /\ releases' = releases + 1
    /\ ref_count' = ref_count - 1
    /\ op' = "unref"
    /\ arg' = NULL
    /\ ret' = NULL
    /\ IF g_atomic_int_dec_and_test(ref_count)
       THEN /\ file_refs' = g_object_unref(file_refs, file)
            /\ ctx_file_refs' = g_object_unref(ctx_file_refs, file)
            /\ res_refs' = FreeResource(res_refs, resource)
            /\ ctx_res_refs' = FreeResource(ctx_res_refs, resource)
            /\ info' = "freed"
            /\ destroys' = destroys + 1
            /\ UNCHANGED <<resource, file, content_id, mimetype, graph, max_text>>
       ELSE UNCHANGED <<fields, file_refs, res_refs, destroys, ghosts>>
    /\ UNCHANGED <<owner_refs, acquires, sets>>

(***************************************************************************)
(* The accessors.                                                          *)
(***************************************************************************)
\* an accessor that returns a new reference to info
ReadTakesRef(name, a, value) ==
    /\ info = "live"
    /\ op' = name
    /\ arg' = a
    /\ ret' = value
    /\ ref_count' = ref_count + 1
    /\ UNCHANGED <<fields, gobjects, held, counters, ghosts>>

Read(name, a, value) ==
    /\ info = "live"
    /\ op' = name
    /\ arg' = a
    /\ ret' = value
    /\ UNCHANGED <<fields, ref_count, gobjects, held, counters, ghosts>>

tracker_extract_info_get_file == Read("get_file", NULL, file)

\* the id that drops the separator
ContentIdNoSeparator(base, suffix) ==
    IF suffix # NULL THEN base \o suffix ELSE g_strdup(base)

\* the id that takes an empty suffix for an absent one
ContentIdEmptyIsAbsent(base, suffix) ==
    IF suffix # NULL /\ suffix # "" THEN base \o "/" \o suffix ELSE g_strdup(base)

\* g_strconcat (info->content_id, "/", suffix, NULL) or g_strdup
ContentId(base, suffix) ==
    IF suffix # NULL THEN base \o "/" \o suffix ELSE g_strdup(base)

tracker_extract_info_get_content_id(suffix) ==
    Read("get_content_id", suffix, ContentId(content_id, suffix))

tracker_extract_info_get_mimetype == Read("get_mimetype", NULL, mimetype)

tracker_extract_info_get_graph == Read("get_graph", NULL, graph)

tracker_extract_info_get_resource == Read("get_resource", NULL, resource)

tracker_extract_info_get_max_text == Read("get_max_text", NULL, max_text)

(***************************************************************************)
(* tracker_extract_info_set_resource: the caller passes NULL or a resource *)
(* that is still alive.                                                    *)
(***************************************************************************)
tracker_extract_info_set_resource(a_resource) ==
    /\ info = "live"
    /\ sets < MaxSets
    /\ a_resource \in Resources => res_refs[a_resource] > 0
    /\ res_refs' = g_object_ref(res_refs, a_resource)
    /\ ctx_res_refs' = g_object_ref(ctx_res_refs, a_resource)
    /\ resource' = a_resource
    /\ sets' = sets + 1
    /\ op' = "set_resource"
    /\ arg' = a_resource
    /\ ret' = NULL
    /\ UNCHANGED <<info, file, content_id, mimetype, graph, max_text, ref_count,
                   file_refs, owner_refs, held, acquires, releases, destroys,
                   ctx_file_refs>>

(***************************************************************************)
(* The code that built a resource drops its own reference to it.           *)
(***************************************************************************)
OwnerUnref(r) ==
    /\ owner_refs[r] > 0
    /\ owner_refs' = [owner_refs EXCEPT ![r] = @ - 1]
    /\ res_refs' = g_object_unref(res_refs, r)
    /\ UNCHANGED <<fields, ref_count, file_refs, held, op, arg, ret, counters, ghosts>>

Next ==
    \/ \E f \in FileArgs, c \in ContentIdArgs, p \in Profiles :
           tracker_extract_info_new(f, c, p[1], p[2], p[3])
    \/ \E w \in Workers : tracker_extract_info_ref(w)
    \/ \E w \in Workers : tracker_extract_info_unref(w)
    \/ tracker_extract_info_get_file
    \/ \E s \in SuffixArgs : tracker_extract_info_get_content_id(s)
    \/ tracker_extract_info_get_mimetype
    \/ tracker_extract_info_get_graph
    \/ tracker_extract_info_get_resource
    \/ tracker_extract_info_get_max_text
    \/ \E r \in ResourceArgs : tracker_extract_info_set_resource(r)
    \/ \E r \in Resources : OwnerUnref(r)

Spec == Init /\ [][Next]_vars

\* a holder that owns a reference eventually gives one back
FairSpec == Spec /\ WF_vars(\E w \in Workers : tracker_extract_info_unref(w))

(***************************************************************************)
(* What the callers observe.                                               *)
(***************************************************************************)
\* the resources info holds a reference on
HeldResources == {r \in Resources : ctx_res_refs[r] > 0}

\* what tracker_extract_info_get_resource would return now
Attached == resource

(***************************************************************************)
(* C1: after set_resource(R1) then set_resource(R2), get_resource returns  *)
(* R2 and the reference info took on R1 has been given back: a live info   *)
(* with a resource attached holds no reference on any other resource, and  *)
(* a destroyed info holds no reference on any resource.                    *)
(***************************************************************************)
C1_ReplacedResourceReleased ==
    /\ op = "set_resource" /\ arg \in Resources => Attached = arg
    /\ info = "live" /\ Attached \in Resources =>
           \A r \in Resources \ {Attached} : ctx_res_refs[r] = 0
    /\ info = "freed" => \A r \in Resources : ctx_res_refs[r] = 0

(***************************************************************************)
(* C2: info is never destroyed while a holder still owns a reference, and  *)
(* tracker_extract_info_ref never acts on a count that has reached zero:   *)
(* a live info has a count of at least 1, and right after a ref the info   *)
(* is live with a count of at least 2.                                     *)
(***************************************************************************)
C2_NeverDestroyedWhileHeld ==
    /\ info = "freed" => \A w \in Workers : held[w] = 0
    /\ info = "live" => ref_count >= 1
    /\ op = "ref" => info = "live" /\ ref_count >= 2

\* an acquire made through a borrowed reference after the dispatcher gave
\* its own back
C2_Witness ==
    /\ op = "ref"
    /\ held["dispatcher"] = 0
    /\ held["extractor"] = 1
    /\ held["consumer"] = 1
    /\ releases >= 1

(***************************************************************************)
(* C3: under FairSpec (every holder eventually gives back each reference   *)
(* it owns) a live info is eventually destroyed, its count at zero.        *)
(***************************************************************************)
C3_EventuallyDestroyed ==
    (info = "live") ~> (info = "freed" /\ ref_count = 0 /\ destroys = 1)

C3_Witness ==
    /\ info = "freed"
    /\ acquires = MaxAcquires
    /\ releases = acquires + 1

(***************************************************************************)
(* C4: while info is live ref_count = 1 + completed refs - completed       *)
(* unrefs, and destruction has run exactly when the unrefs number one more *)
(* than the refs.                                                          *)
(***************************************************************************)
C4_RefCountBalance ==
    /\ info = "live" => /\ ref_count = 1 + acquires - releases
                        /\ releases <= acquires
                        /\ destroys = 0
    /\ info = "freed" => /\ releases = acquires + 1
                         /\ destroys = 1

C4_Witness ==
    /\ info = "live"
    /\ acquires >= 2
    /\ releases >= 2
    /\ op = "unref"

(***************************************************************************)
(* C5: for every valid input tracker_extract_info_new returns an info with *)
(* ref_count 1 and no resource, and get_resource called before any         *)
(* set_resource returns NULL.                                              *)
(***************************************************************************)
C5_NewIsCreated ==
    /\ op = "new" /\ arg[1] \in GFiles /\ arg[2] \notin {NULL, ""} =>
           /\ ret # NULL
           /\ info = "live"
           /\ ref_count = 1
           /\ Attached = NULL
    /\ op = "get_resource" /\ sets = 0 => ret = NULL

C5_Witness ==
    /\ op = "get_resource"
    /\ ret = NULL
    /\ ref_count = 1
    /\ sets = 0
    /\ acquires = 0

(***************************************************************************)
(* C6: tracker_extract_info_new with a file that is no GFile, or with a    *)
(* NULL or empty content_id, returns NULL, creates no info and takes no    *)
(* reference on any file.                                                  *)
(***************************************************************************)
C6_InvalidNewFails ==
    op = "new" /\ (arg[1] \notin GFiles \/ arg[2] = NULL \/ arg[2] = "") =>
        /\ ret = NULL
        /\ info = NULL
        /\ ref_count = 0
        /\ \A f \in GFiles : file_refs[f] = 1 /\ ctx_file_refs[f] = 0
        /\ \A w \in Workers : held[w] = 0

C6_Witness ==
    /\ op = "new"
    /\ arg[1] \in GFiles
    /\ arg[2] = ""
    /\ ret = NULL

(***************************************************************************)
(* C7: info is destroyed only by the unref that takes ref_count from 1 to  *)
(* 0, at most once; that step gives back one reference on the file and one *)
(* on the attached resource, if any; an unref that leaves the count above  *)
(* zero changes no field and no reference count of a file or resource.     *)
(***************************************************************************)
C7_DestroyStep ==
    /\ info = "live" /\ info' = "freed" =>
           /\ ref_count = 1 /\ ref_count' = 0
           /\ releases' = releases + 1
           /\ destroys = 0 /\ destroys' = 1
           /\ file_refs' = [file_refs EXCEPT ![file] = @ - 1]
           /\ res_refs' = IF resource \in Resources
                          THEN [res_refs EXCEPT ![resource] = @ - 1]
                          ELSE res_refs
    /\ info = "freed" => info' = "freed" /\ destroys' = destroys
    /\ releases' # releases /\ ref_count' > 0 =>
           /\ info' = "live"
           /\ UNCHANGED <<fields, file_refs, res_refs, destroys>>
    /\ destroys' # destroys => info = "live" /\ info' = "freed"

\* C7: every step of every behaviour satisfies C7_DestroyStep: destruction
\* happens only in the unref that takes ref_count to zero, once, and gives
\* back the file and the attached resource once each
C7_DestroyOnlyAtZero == [][C7_DestroyStep]_vars

\* destroyed with a resource attached, after a release that was not final
C7_Witness ==
    /\ info = "freed"
    /\ resource \in Resources
    /\ acquires >= 1
    /\ res_refs[resource] = owner_refs[resource]

(***************************************************************************)
(* C8: get_content_id returns the base content_id itself for a NULL suffix *)
(* and base, "/", suffix in that order and nothing else for any other      *)
(* suffix, the empty one included.                                         *)
(***************************************************************************)
C8_DerivedId ==
    op = "get_content_id" =>
        IF arg = NULL
        THEN ret = content_id
        ELSE /\ Len(ret) = Len(content_id) + 1 + Len(arg)
             /\ SubSeq(ret, 1, Len(content_id)) = content_id
             /\ SubSeq(ret, Len(content_id) + 1, Len(content_id) + 1) = "/"
             /\ SubSeq(ret, Len(content_id) + 2, Len(ret)) = arg

\* base "abc123" and suffix "3"
C8_Witness ==
    /\ op = "get_content_id"
    /\ content_id = "abc123"
    /\ arg = "3"
    /\ ret = "abc123/3"

(***************************************************************************)
(* C9: for a fixed info the derived id is a function of the suffix alone   *)
(* and is injective in it: the id a call returned is the one any call with *)
(* the same suffix returns while info lives (content_id never changes), no *)
(* other suffix, NULL included, yields it, and suffixes "0", "1", "2" on   *)
(* base "h:feedface" give three different ids.                             *)
(***************************************************************************)
C9_Injective ==
    /\ op = "get_content_id" /\ info = "live" =>
           \A s \in SuffixArgs : (ContentId(content_id, s) = ret) <=> (s = arg)
    /\ Cardinality({ContentId("h:feedface", s) : s \in {"0", "1", "2"}}) = 3

\* C9: C9_Injective holds in every state, and no step of a live info changes
\* content_id, so the derived id depends on the suffix alone
C9_DeterministicInjective ==
    /\ []C9_Injective
    /\ [][info = "live" /\ info' = "live" => content_id' = content_id]_vars

\* a call with the empty suffix, after a set_resource, a ref and an unref
C9_Witness ==
    /\ op = "get_content_id"
    /\ info = "live"
    /\ arg = ""
    /\ sets >= 1
    /\ acquires >= 1
    /\ releases >= 1

(***************************************************************************)
(* C10: once set_resource has attached a resource (info has taken a        *)
(* reference on one), get_resource does not return NULL while info lives.  *)
(***************************************************************************)
C10_NoEdgeBackToCreated ==
    info = "live" /\ HeldResources # {} => Attached # NULL


(***************************************************************************)
(* C11: the identity fields are written once, by tracker_extract_info_new: *)
(* right after a successful new they equal the values passed, content_id   *)
(* is never NULL or empty while info lives, and no step that leaves info   *)
(* live (ref, a non-final unref, set_resource, any accessor) changes       *)
(* content_id, mimetype, graph, max_text or file.                          *)
(***************************************************************************)
C11_FieldsAsPassed ==
    /\ info = "live" => content_id \notin {NULL, ""} /\ file \in GFiles
    /\ op = "new" /\ info = "live" =>
           <<file, content_id, mimetype, graph, max_text>> = arg

C11_FieldsKept ==
    info = "live" /\ info' = "live" =>
        UNCHANGED <<file, content_id, mimetype, graph, max_text>>

\* C11: C11_FieldsAsPassed holds in every state and C11_FieldsKept in every
\* step, so the identity fields of a live info are those passed to new
C11_WriteOnce == []C11_FieldsAsPassed /\ [][C11_FieldsKept]_vars

\* the empty graph passed to new is read back after a set_resource, a ref
\* and a non-final unref
C11_Witness ==
    /\ info = "live"
    /\ op = "get_graph"
    /\ ret = ""
    /\ content_id = "h:feedface"
    /\ sets >= 1
    /\ acquires >= 1
    /\ releases >= 1


(***************************************************************************)
(* C12: get_content_id and the accessors (get_file, get_mimetype,          *)
(* get_graph, get_max_text, get_resource) are pure reads: the step of such *)
(* a call returns the field it names and leaves every field of info, its   *)
(* ref_count, the resource slot and the reference counts of the file and   *)
(* of the resources as they were.                                          *)
(***************************************************************************)
AccessorOps == {"get_file", "get_content_id", "get_mimetype", "get_graph",
                "get_resource", "get_max_text"}

\* a step that is the call of an accessor (the only other step that can end
\* with op naming one is OwnerUnref, which changes owner_refs)
AccessorStep == op' \in AccessorOps /\ owner_refs' = owner_refs

C12_ReadStep ==
    AccessorStep =>
        /\ UNCHANGED <<fields, ref_count, file_refs, res_refs, ghosts>>
        /\ op' = "get_file" => ret' = file
        /\ op' = "get_mimetype" => ret' = mimetype
        /\ op' = "get_graph" => ret' = graph
        /\ op' = "get_resource" => ret' = resource
        /\ op' = "get_max_text" => ret' = max_text

\* C12: every accessor step of every behaviour is a pure read (C12_ReadStep)
C12_PureReads == [][C12_ReadStep]_vars

\* a derived id read from an info that is shared and has a resource attached
C12_Witness ==
    /\ info = "live"
    /\ op = "get_content_id"
    /\ arg = "3"
    /\ resource \in Resources
    /\ ref_count = 2
    /\ res_refs[resource] = owner_refs[resource] + 1


(***************************************************************************)
(* C13: while info lives, the resource get_resource returns is one info    *)
(* holds a reference on, so it has not been freed, whether or not the code *)
(* that built it still holds its own reference.                            *)
(***************************************************************************)
C13_ViewStaysValid ==
    /\ info = "live" /\ Attached \in Resources =>
           /\ ctx_res_refs[Attached] >= 1
           /\ res_refs[Attached] >= 1
           /\ res_refs[Attached] = owner_refs[Attached] + ctx_res_refs[Attached]
    /\ info = "live" /\ op = "get_resource" /\ ret \in Resources =>
           ret = Attached /\ res_refs[ret] >= 1

\* get_resource returns a resource whose builder has dropped its reference
C13_Witness ==
    /\ info = "live"
    /\ op = "get_resource"
    /\ ret \in Resources
    /\ owner_refs[ret] = 0
    /\ res_refs[ret] = 1


(***************************************************************************)
(* C14: info holds exactly one counted reference on its file from a        *)
(* successful new until destruction: new raises the file's reference count *)
(* by one, no step that leaves info live changes it, the destroying unref  *)
(* lowers it by one, and nothing else touches it, so the count of a live   *)
(* info's file is at least 1 and is back at its value before new once info *)
(* is destroyed.                                                           *)
(***************************************************************************)
C14_FileHeld ==
    /\ info = NULL => \A f \in GFiles : ctx_file_refs[f] = 0
    /\ info = "live" => /\ ctx_file_refs[file] = 1
                        /\ file_refs[file] >= 1
                        /\ \A f \in GFiles \ {file} : ctx_file_refs[f] = 0
    /\ info = "freed" => \A f \in GFiles : ctx_file_refs[f] = 0

C14_FileStep ==
    /\ info = NULL /\ info' = "live" =>
           file_refs' = [file_refs EXCEPT ![file'] = @ + 1]
    /\ info = "live" /\ info' = "live" => file_refs' = file_refs
    /\ info = "live" /\ info' = "freed" =>
           file_refs' = [file_refs EXCEPT ![file] = @ - 1]
    /\ info' = info /\ info # "live" => file_refs' = file_refs

\* C14: C14_FileHeld holds in every state and C14_FileStep in every step:
\* one reference on the file from new to destruction
C14_OneFileReference == []C14_FileHeld /\ [][C14_FileStep]_vars

\* destroyed after a set_resource and a ref, the file back at the one
\* reference its opener holds
C14_Witness ==
    /\ info = "freed"
    /\ file_refs[file] = 1
    /\ sets >= 1
    /\ acquires >= 1


(***************************************************************************)
(* C15: set_resource takes its own reference instead of consuming the      *)
(* caller's: the step of a call stores its argument in the resource slot,  *)
(* raises the reference count of that resource by exactly one (of none for *)
(* NULL) and changes neither ref_count, nor the identity fields, nor the   *)
(* file's count, nor the caller's reference; and when info is destroyed    *)
(* after exactly one set_resource, the destroying step takes that one      *)
(* reference back, leaving each resource with the references of its        *)
(* builder only.                                                           *)
(***************************************************************************)
C15_SetStep ==
    /\ op' = "set_resource" /\ sets' = sets + 1 =>
           /\ resource' = arg'
           /\ res_refs' = IF arg' \in Resources
                          THEN [res_refs EXCEPT ![arg'] = @ + 1]
                          ELSE res_refs
           /\ UNCHANGED <<info, file, content_id, mimetype, graph, max_text,
                          ref_count, file_refs, owner_refs>>
    /\ info = "live" /\ info' = "freed" /\ sets = 1 /\ resource \in Resources =>
           /\ res_refs' = [res_refs EXCEPT ![resource] = @ - 1]
           /\ owner_refs' = owner_refs

C15_AfterDestroy ==
    info = "freed" /\ sets = 1 =>
        \A r \in Resources : res_refs[r] = owner_refs[r] /\ ctx_res_refs[r] = 0

\* C15: C15_SetStep holds in every step and C15_AfterDestroy in every state:
\* set_resource adds one reference of its own, destruction returns it
C15_OwnReference == []C15_AfterDestroy /\ [][C15_SetStep]_vars

\* destroyed after one set_resource of a resource whose builder still holds
\* its own reference
C15_Witness ==
    /\ info = "freed"
    /\ sets = 1
    /\ resource \in Resources
    /\ owner_refs[resource] = 1
    /\ res_refs[resource] = 1


=============================================================================
